---- MODULE Spec2Model ----
(***************************************************************************)
(* Model of server.js: the product-request intake server.                  *)
(*                                                                         *)
(* Strings that the code inspects character by character (client names,    *)
(* original file names, paths) are sequences of one-character strings; the *)
(* platform separator is one of the characters of a path.  A request body  *)
(* is a multipart stream: its parts arrive one by one and the upload       *)
(* middleware handles each part as it arrives.  Node runs a handler to its *)
(* next await without interleaving, so the synchronous part of a handler   *)
(* is one action.  Of the text fields of the form only `name` is modelled: *)
(* email, phone, whatsapp and productDetails are copied into the           *)
(* submission the same way and are read by nothing else.                   *)
(***************************************************************************)
EXTENDS Integers, Sequences, FiniteSets, TLC

VARIABLES
    sep,        \* path.sep of the host platform
    creds,      \* TRUE iff GMAIL_USER and GMAIL_PASS are both set
    faults,     \* TRUE iff the file system may fail an operation
    up,         \* TRUE while the server process is alive
    now,        \* Date.now()
    dirExists,  \* fs.existsSync(dataDir)
    store,      \* the file at dataFilePath
    store0,     \* history: the file at dataFilePath when the server started
    pc,         \* per request: position in the pipeline
    nparts,     \* per request: parts of the multipart body received so far
    body,       \* per request: req.body.name as built so far
    files,      \* per request: req.files as built so far
    steps,      \* per request: history of the pipeline steps it has taken
    resp,       \* per request: the response sent to the client
    sub,        \* per request: the submission object built by the handler
    getResp,    \* the last response of GET /api/requests or /api/health
    log,        \* history: every submission appendSubmission has written
    sanIn,      \* input of the last sanitizer evaluation
    sanOut      \* result of the last sanitizer evaluation

vars == <<sep, creds, faults, up, now, dirExists, store, store0, pc, nparts, body,
          files, steps, resp, sub, getResp, log, sanIn, sanOut>>

----------------------------------------------------------------------------
(* Bounds of the model *)

\* parts of one multipart body in the concurrent specifications
MaxParts == 1
\* parts of one multipart body in the single-request upload specification
MaxPartsUp == 8
\* largest value of the clock
MaxClock == 1
\* length of the enumerated raw names of the sanitizer specification
MaxLen == 3

----------------------------------------------------------------------------
(* Characters and strings *)

UpperSeq == <<"A","B","C","D","E","F","G","H","I","J","K","L","M",
              "N","O","P","Q","R","S","T","U","V","W","X","Y","Z">>
LowerSeq == <<"a","b","c","d","e","f","g","h","i","j","k","l","m",
              "n","o","p","q","r","s","t","u","v","w","x","y","z">>

Upper == {UpperSeq[i] : i \in 1..26}
Lower == {LowerSeq[i] : i \in 1..26}
Digit == {"0","1","2","3","4","5","6","7","8","9"}
\* the characters matched by \s (and stripped by trim) that the model uses
WS == {" ", "\t", "\n"}

\* String.prototype.toLowerCase, one character
LowerChar(c) ==
    IF c \in Upper
    THEN LowerSeq[CHOOSE i \in 1..26 : UpperSeq[i] = c]
    ELSE c

ToLowerCase(s) == [i \in 1..Len(s) |-> LowerChar(s[i])]

\* the characters the class [^a-z0-9\-\_\s] does NOT match
NameKeep == Lower \cup Digit \cup {"-", "_"} \cup WS
\* the same class under the i flag
NameKeepI == NameKeep \cup Upper

Keep(s, set) == SelectSeq(s, LAMBDA c : c \in set)

RECURSIVE TrimLeft(_)
TrimLeft(s) ==
    IF s # <<>> /\ Head(s) \in WS THEN TrimLeft(Tail(s)) ELSE s

RECURSIVE TrimRight(_)
TrimRight(s) ==
    IF s # <<>> /\ s[Len(s)] \in WS
    THEN TrimRight(SubSeq(s, 1, Len(s) - 1))
    ELSE s

\* a sanitizer that forgets to trim
TrimNothing(s) == s

\* String.prototype.trim
Trim(s) == TrimRight(TrimLeft(s))

\* .replace(/\s+/g, '-'): every maximal run of whitespace becomes one hyphen
RECURSIVE CollapseWs(_)
CollapseWs(s) ==
    IF s = <<>> THEN <<>>
    ELSE IF Head(s) \in WS
         THEN <<"-">> \o CollapseWs(TrimLeft(s))
         ELSE <<Head(s)>> \o CollapseWs(Tail(s))

ANONYMOUS == <<"a","n","o","n","y","m","o","u","s">>

----------------------------------------------------------------------------
(* Values of req.body.name *)

Undef == [t |-> "undefined", v |-> <<>>]
Str(s) == [t |-> "string", v |-> s]
\* two `name` fields in one body: append-field turns the value into an array
Arr(a) == [t |-> "array", v |-> a]

\* JavaScript truthiness of a value of req.body.name
Truthy(x) == x.t = "array" \/ (x.t = "string" /\ x.v # <<>>)

\* server.js line 26
ClientNameRaw(bodyName) == IF Truthy(bodyName) THEN bodyName ELSE Str(ANONYMOUS)

\* server.js line 27: .toLowerCase is a method of strings only
DestinationThrows(bodyName) == ClientNameRaw(bodyName).t # "string"

\* server.js lines 27-31
ClientNameSafe(bodyName) ==
    CollapseWs(Trim(Keep(ToLowerCase(ClientNameRaw(bodyName).v), NameKeep)))

\* server.js line 32: the last segment of clientDir
ClientDirName(bodyName) ==
    LET safe == ClientNameSafe(bodyName)
    IN  IF safe # <<>> THEN safe ELSE ANONYMOUS

----------------------------------------------------------------------------
(* File placement *)

Chars_uploads == <<"u","p","l","o","a","d","s">>
Chars_upload == <<"u","p","l","o","a","d">>
Chars_jpg == <<".","j","p","g">>

DigitSeq == <<"0","1","2","3","4","5","6","7","8","9">>

\* decimal digits of a natural number, as in a template literal
RECURSIVE Dec(_)
Dec(n) ==
    IF n < 10 THEN <<DigitSeq[n + 1]>>
    ELSE Dec(n \div 10) \o <<DigitSeq[(n % 10) + 1]>>

\* __dirname
DirName == <<sep, "s", "r", "v">>

\* path.join of a directory and one more segment
PathJoin(dir, seg) == dir \o <<sep>> \o seg

\* server.js line 18
uploadsRoot == PathJoin(DirName, Chars_uploads)

\* server.js line 32
ClientDir(bodyName) == PathJoin(uploadsRoot, ClientDirName(bodyName))

\* index of the last "." of s, 0 when there is none
LastDot(s) ==
    IF \E i \in 1..Len(s) : s[i] = "."
    THEN CHOOSE i \in 1..Len(s) :
            s[i] = "." /\ \A j \in (i + 1)..Len(s) : s[j] # "."
    ELSE 0

\* path.extname of a name without directories: from the last dot on, empty
\* when there is no dot or the only dot leads the name
Extname(orig) ==
    LET i == LastDot(orig)
    IN  IF i <= 1 THEN <<>> ELSE SubSeq(orig, i, Len(orig))

\* path.basename(orig, ext) of a name without directories
Basename(orig, ext) ==
    IF /\ ext # <<>>
       /\ Len(ext) < Len(orig)
       /\ SubSeq(orig, Len(orig) - Len(ext) + 1, Len(orig)) = ext
    THEN SubSeq(orig, 1, Len(orig) - Len(ext))
    ELSE orig

\* server.js lines 37-40
Filename(orig, timestamp) ==
    LET e    == Extname(orig)
        ext  == IF e # <<>> THEN e ELSE Chars_jpg
        base == CollapseWs(Trim(Keep(Basename(orig, ext), NameKeepI)))
    IN  (IF base # <<>> THEN base ELSE Chars_upload)
            \o <<"-">> \o Dec(timestamp) \o ext

\* the file object the disk storage engine adds to req.files
StoredFile(bodyName, orig, timestamp) ==
    [ originalname |-> orig,
      destination  |-> ClientDir(bodyName),
      filename     |-> Filename(orig, timestamp),
      path         |-> PathJoin(ClientDir(bodyName), Filename(orig, timestamp)) ]

\* path.relative(from, to) for a path `to` below the directory `from`
PathRelative(from, to) == SubSeq(to, Len(from) + 2, Len(to))

\* .split(path.sep).join('/')
SlashJoin(p) == [i \in 1..Len(p) |-> IF p[i] = sep THEN "/" ELSE p[i]]

\* server.js line 91
PublicPath(f) ==
    <<"/">> \o Chars_uploads \o <<"/">>
        \o SlashJoin(PathRelative(uploadsRoot, f.path))

\* the public paths collected last file first
fileRelativePathsReversed(fs) ==
    [i \in 1..Len(fs) |-> PublicPath(fs[Len(fs) + 1 - i])]

\* server.js lines 90-93
fileRelativePaths(fs) == [i \in 1..Len(fs) |-> PublicPath(fs[i])]

----------------------------------------------------------------------------
(* JSON documents and the store file *)

\* a key that JSON.stringify left out, or that the document never had
Absent == [t |-> "absent", v |-> <<>>]

\* what JSON.stringify makes of one submission: a key whose value is
\* undefined is left out
SubToJson(s) ==
    [s EXCEPT !.name = IF s.name.t = "undefined" THEN Absent ELSE s.name]

\* parsed documents: null, [], and objects by their `submissions` member
JNull == [t |-> "null", subs |-> Absent]
JArray == [t |-> "array", subs |-> Absent]
JObject(m) == [t |-> "object", subs |-> m]
SubsList(l) == [t |-> "list", v |-> l]
SubsNumber == [t |-> "number", v |-> <<>>]

\* { submissions: [] }
EmptyData == JObject(SubsList(<<>>))

\* file contents: the empty string, text that is not JSON, a JSON text
RawEmpty == [k |-> "empty", val |-> JNull]
RawGarbage == [k |-> "garbage", val |-> JNull]
RawJson(d) == [k |-> "json", val |-> d]

\* JSON.stringify(data, null, 2)
Stringify(data) ==
    RawJson(IF data.subs.t = "list"
            THEN [data EXCEPT !.subs.v =
                    [i \in 1..Len(data.subs.v) |-> SubToJson(data.subs.v[i])]]
            ELSE data)

\* whether JSON.parse(raw || '{"submissions":[]}') throws
ParseThrows(raw) == raw.k = "garbage"

\* JSON.parse(raw || '{"submissions":[]}') when it does not throw
Parse(raw) == IF raw.k = "empty" THEN EmptyData ELSE raw.val

NoFile == [exists |-> FALSE, readable |-> TRUE, raw |-> RawEmpty]
File(readable, raw) == [exists |-> TRUE, readable |-> readable, raw |-> raw]

\* the file-system operation that fails during one call, if any
FaultPoints == {"none", "mkdir", "init", "read", "write"}

\* an initializer that writes the empty store without looking for the file
ensureDataFileAlwaysWrites(d, st, f) ==
    IF ~d /\ f = "mkdir" THEN [ok |-> FALSE, dir |-> d, store |-> st]
    ELSE IF f = "init" THEN [ok |-> FALSE, dir |-> TRUE, store |-> st]
    ELSE [ok |-> TRUE, dir |-> TRUE,
          store |-> File(TRUE, Stringify(EmptyData))]

\* server.js lines 130-137; the result says whether the call returned
ensureDataFile(d, st, f) ==
    IF ~d /\ f = "mkdir" THEN [ok |-> FALSE, dir |-> d, store |-> st]
    ELSE IF st.exists THEN [ok |-> TRUE, dir |-> TRUE, store |-> st]
    ELSE IF f = "init" THEN [ok |-> FALSE, dir |-> TRUE, store |-> st]
    ELSE [ok |-> TRUE, dir |-> TRUE,
          store |-> File(TRUE, Stringify(EmptyData))]

\* a loader that works on the content it read when the server started
LoadedDataStale(st, f) ==
    IF ~store0.exists \/ ~store0.readable \/ ParseThrows(store0.raw)
    THEN EmptyData
    ELSE Parse(store0.raw)

\* server.js lines 141-145: the value of `data` before the push
LoadedData(st, f) ==
    IF ~st.readable \/ f = "read" \/ ParseThrows(st.raw)
    THEN EmptyData
    ELSE Parse(st.raw)

\* server.js line 146: data.submissions.push exists only on an array
PushThrows(data) == ~(data.t = "object" /\ data.subs.t = "list")

\* server.js lines 139-148; the result says whether the call returned
appendSubmission(d, st, submission, f) ==
    LET e    == ensureDataFile(d, st, f)
        data == LoadedData(e.store, f)
    IN  IF ~e.ok THEN e
        ELSE IF PushThrows(data) \/ f = "write"
        THEN [ok |-> FALSE, dir |-> e.dir, store |-> e.store]
        ELSE [ok |-> TRUE, dir |-> e.dir,
              store |-> File(e.store.readable,
                    Stringify([data EXCEPT !.subs.v = Append(@, submission)]))]

----------------------------------------------------------------------------
(* Requests and responses *)

\* the requests in flight
Reqs == {1, 2}

\* values a client sends in the `name` field
NameValues == { <<"J", " ", "d", "!">>, <<".", ".", "/">> }

\* original names of the files a client sends
OrigNames == { <<"p", ".", "P", "N", "G">>, <<"a", " ", "b">> }

\* field names under which a client sends files
FileFields == {"images", "avatar"}

\* upload.array('images', 6): server.js line 86
MaxCount == 6

NoResp == [status |-> 0, body |-> "none"]
\* server.js line 119
Ok200 == [status |-> 200, body |-> "ok"]
\* server.js line 122
Json500 == [status |-> 500, body |-> "failed"]
\* the framework's default error handler: status 500, an HTML error page
Html500 == [status |-> 500, body |-> "html"]

NoSub == [id |-> <<>>, name |-> Undef, images |-> <<>>, createdAt |-> <<>>]

\* server.js lines 96-105
Submission(r, rnd) ==
    [ id        |-> Dec(now) \o <<"-">> \o rnd,
      name      |-> body[r],
      images    |-> fileRelativePaths(files[r]),
      createdAt |-> Dec(now) ]

\* what a synchronous throw inside a storage callback can lead to: it happens
\* inside the body parser's event handler, where nothing catches it
ThrowOutcomes == {"crash", "errhandler"}

\* the values of Math.random().toString(36).slice(2, 8) the model draws: the
\* id is read by nothing in the program
Rands == { <<"k", "3", "x", "9", "a", "b">> }

IoFaults == IF faults THEN FaultPoints ELSE {"none"}

\* a transporter factory that does not look at the credentials
createTransporterUnchecked == FALSE

\* server.js lines 57-60
createTransporterThrows == ~creds

----------------------------------------------------------------------------
(* The server *)

\* a client opens POST /api/requests
Arrive(r) ==
    /\ up /\ pc[r] = "idle"
    /\ pc' = [pc EXCEPT ![r] = "upload"]
    /\ UNCHANGED <<sep, creds, faults, up, now, dirExists, store, store0, nparts,
                   body, files, steps, resp, sub, getResp, log, sanIn, sanOut>>

\* append-field on req.body.name: a second value makes an array
AppendField(old, v) ==
    IF old.t = "undefined" THEN Str(v)
    ELSE IF old.t = "string" THEN Arr(<<old.v, v>>)
    ELSE Arr(Append(old.v, v))

\* a `name` field part arrives
RecvField(r, v, P) ==
    /\ up /\ pc[r] = "upload" /\ nparts[r] < P
    /\ nparts' = [nparts EXCEPT ![r] = @ + 1]
    /\ body' = [body EXCEPT ![r] = AppendField(@, v)]
    /\ UNCHANGED <<sep, creds, faults, up, now, dirExists, store, store0, pc, files,
                   steps, resp, sub, getResp, log, sanIn, sanOut>>

\* the middleware passes an error to next(): the default error handler answers
AbortUpload(r) ==
    /\ pc' = [pc EXCEPT ![r] = "done"]
    /\ resp' = [resp EXCEPT ![r] = Html500]
    /\ steps' = [steps EXCEPT ![r] = Append(@, "respond")]
    /\ UNCHANGED <<up, files>>

\* a file part arrives: upload.array('images', 6) with the disk storage
RecvFile(r, field, orig, io, outcome, P) ==
    /\ up /\ pc[r] = "upload" /\ nparts[r] < P
    /\ nparts' = [nparts EXCEPT ![r] = @ + 1]
    /\ IF field # "images" \/ Len(files[r]) >= MaxCount
       THEN \* LIMIT_UNEXPECTED_FILE
            AbortUpload(r)
       ELSE IF DestinationThrows(body[r]) \/ io = "mkdir"
       THEN \* server.js lines 27 and 33 throw inside the destination callback
            IF outcome = "crash"
            THEN /\ up' = FALSE
                 /\ UNCHANGED <<pc, resp, steps, files>>
            ELSE AbortUpload(r)
       ELSE IF io = "write"
       THEN \* the write stream fails: the storage engine reports it
            AbortUpload(r)
       ELSE /\ files' = [files EXCEPT ![r] =
                            Append(@, StoredFile(body[r], orig, now))]
            /\ steps' = [steps EXCEPT ![r] = Append(@, "file")]
            /\ UNCHANGED <<up, pc, resp>>
    /\ UNCHANGED <<sep, creds, faults, now, dirExists, store, store0, body, sub,
                   getResp, log, sanIn, sanOut>>

\* the history entry of a handler run in which the file system failed a call
FaultMark(f) == IF f = "none" THEN <<>> ELSE <<"fault">>

\* the body ends and the route handler runs up to its await:
\* server.js lines 87-117 and, when something throws, 120-123
Handle(r, rnd, f) ==
    /\ up /\ pc[r] = "upload"
    /\ LET submission == Submission(r, rnd)
           a == appendSubmission(dirExists, store, submission, f)
       IN  /\ sub' = [sub EXCEPT ![r] = submission]
           /\ dirExists' = a.dir
           /\ store' = a.store
           /\ log' = IF a.ok THEN Append(log, submission) ELSE log
           /\ IF ~a.ok
              THEN /\ pc' = [pc EXCEPT ![r] = "done"]
                   /\ resp' = [resp EXCEPT ![r] = Json500]
                   /\ steps' = [steps EXCEPT ![r] =
                                    @ \o FaultMark(f) \o <<"handle", "respond">>]
              ELSE IF createTransporterThrows
              THEN /\ pc' = [pc EXCEPT ![r] = "done"]
                   /\ resp' = [resp EXCEPT ![r] = Json500]
                   /\ steps' = [steps EXCEPT ![r] =
                        @ \o FaultMark(f) \o <<"handle", "append", "respond">>]
              ELSE /\ pc' = [pc EXCEPT ![r] = "sending"]
                   /\ steps' = [steps EXCEPT ![r] =
                        @ \o FaultMark(f) \o <<"handle", "append", "send">>]
                   /\ UNCHANGED resp
    /\ UNCHANGED <<sep, creds, faults, up, now, store0, nparts, body, files,
                   getResp, sanIn, sanOut>>

\* a handler that answers success whatever sendMail did
MailDoneAlwaysOk(r, delivered) ==
    /\ up /\ pc[r] = "sending"
    /\ pc' = [pc EXCEPT ![r] = "done"]
    /\ resp' = [resp EXCEPT ![r] = Ok200]
    /\ steps' = [steps EXCEPT ![r] =
                    @ \o <<IF delivered THEN "sent" ELSE "sendfail", "respond">>]
    /\ UNCHANGED <<sep, creds, faults, up, now, dirExists, store, store0, nparts,
                   body, files, sub, getResp, log, sanIn, sanOut>>

\* transporter.sendMail settles: server.js lines 112-123
MailDone(r, delivered) ==
    /\ up /\ pc[r] = "sending"
    /\ pc' = [pc EXCEPT ![r] = "done"]
    /\ resp' = [resp EXCEPT ![r] = IF delivered THEN Ok200 ELSE Json500]
    /\ steps' = [steps EXCEPT ![r] =
                    @ \o <<IF delivered THEN "sent" ELSE "sendfail", "respond">>]
    /\ UNCHANGED <<sep, creds, faults, up, now, dirExists, store, store0, nparts,
                   body, files, sub, getResp, log, sanIn, sanOut>>

NoGet == [status |-> 0, kind |-> "none", data |-> JNull]

\* GET /api/requests: server.js lines 151-160
List(f) ==
    /\ up
    /\ LET e == ensureDataFile(dirExists, store, f)
       IN  /\ dirExists' = e.dir
           /\ store' = e.store
           /\ getResp' =
                IF ~e.ok
                THEN [status |-> 500, kind |-> "html", data |-> JNull]
                ELSE IF ~e.store.readable \/ f = "read" \/ ParseThrows(e.store.raw)
                THEN [status |-> 200, kind |-> "json", data |-> EmptyData]
                ELSE [status |-> 200, kind |-> "json", data |-> Parse(e.store.raw)]
    /\ UNCHANGED <<sep, creds, faults, up, now, store0, pc, nparts, body, files,
                   steps, resp, sub, log, sanIn, sanOut>>

\* GET /api/health: server.js lines 51-53
Health ==
    /\ up
    /\ getResp' = [status |-> 200, kind |-> "health", data |-> JNull]
    /\ UNCHANGED <<sep, creds, faults, up, now, dirExists, store, store0, pc, nparts,
                   body, files, steps, resp, sub, log, sanIn, sanOut>>

\* a millisecond passes
Tick ==
    /\ up /\ now < MaxClock
    /\ now' = now + 1
    /\ UNCHANGED <<sep, creds, faults, up, dirExists, store, store0, pc, nparts,
                   body, files, steps, resp, sub, getResp, log, sanIn, sanOut>>

\* the upload middleware, for requests R sending at most P parts
Upload(R, P, names, origs) ==
    \/ \E r \in R : Arrive(r)
    \/ \E r \in R, v \in names : RecvField(r, v, P)
    \/ \E r \in R, field \in FileFields, orig \in origs,
          io \in IoFaults \cap {"none", "mkdir", "write"},
          outcome \in ThrowOutcomes :
            RecvFile(r, field, orig, io, outcome, P)

\* the route handler of POST /api/requests
Intake(R) ==
    \/ \E r \in R, rnd \in Rands, f \in IoFaults : Handle(r, rnd, f)
    \/ \E r \in R, delivered \in BOOLEAN : MailDone(r, delivered)

Listing ==
    \/ \E f \in IoFaults : List(f)
    \/ Health

\* a submission an earlier run of the server left in the store
PriorSub ==
    [ id        |-> <<"0", "-", "p">>,
      name      |-> Str(<<"e", "v", "e">>),
      images    |-> <<>>,
      createdAt |-> <<"0">> ]

\* the states of the data directory a healthy installation starts in
CleanStores ==
    { <<FALSE, NoFile>>, <<TRUE, NoFile>>,
      <<TRUE, File(TRUE, Stringify(EmptyData))>>,
      <<TRUE, File(TRUE, Stringify(JObject(SubsList(<<PriorSub>>))))>> }

\* every kind of content the store file can have
AnyStores ==
    CleanStores \cup
    { <<TRUE, File(TRUE, raw)>> :
        raw \in { RawEmpty, RawGarbage, RawJson(JNull), RawJson(JArray),
                  RawJson(JObject(Absent)), RawJson(JObject(SubsNumber)) } }
    \cup { <<TRUE, File(FALSE, Stringify(EmptyData))>> }

InitWith(seps, fl, stores, raws) ==
    /\ sep \in seps
    /\ creds \in BOOLEAN
    /\ faults \in fl
    /\ up = TRUE
    /\ now = 0
    /\ \E ds \in stores : dirExists = ds[1] /\ store = ds[2]
    /\ store0 = store
    /\ pc = [r \in Reqs |-> "idle"]
    /\ nparts = [r \in Reqs |-> 0]
    /\ body = [r \in Reqs |-> Undef]
    /\ files = [r \in Reqs |-> <<>>]
    /\ steps = [r \in Reqs |-> <<>>]
    /\ resp = [r \in Reqs |-> NoResp]
    /\ sub = [r \in Reqs |-> NoSub]
    /\ getResp = NoGet
    /\ log = <<>>
    /\ sanIn \in raws
    /\ sanOut = <<>>

\* concurrent requests against a healthy file system and a clean store
Init == InitWith({"/"}, {FALSE}, CleanStores, {Undef})
Next ==
    \/ Upload(Reqs, MaxParts, {<<"J", " ", "d", "!">>}, {<<"p", ".", "P", "N", "G">>})
    \/ Intake(Reqs)
    \/ Listing
    \/ Tick
Spec == Init /\ [][Next]_vars

\* one request against any store file and a file system that may fail
InitStore == InitWith({"/"}, {TRUE}, AnyStores, {Undef})
NextStore ==
    \/ Upload({1}, MaxParts, {<<"J", " ", "d", "!">>}, {<<"p", ".", "P", "N", "G">>})
    \/ Intake({1})
    \/ Listing
    \/ Tick
SpecStore == InitStore /\ [][NextStore]_vars

\* one request with a long body, on either platform
InitUp == InitWith({"/", "\\"}, {FALSE}, {<<TRUE, File(TRUE, Stringify(EmptyData))>>},
             {Undef})
NextUp ==
    \/ Upload({1}, MaxPartsUp, NameValues, OrigNames)
    \/ Intake({1})
SpecUp == InitUp /\ [][NextUp]_vars

----------------------------------------------------------------------------
(* The sanitizer as a function of its input *)

\* characters of the enumerated raw names: one of each class the filter,
\* the trim and the whitespace rule tell apart
SanAlphabet == {"A", "b", "7", "-", "_", " ", "\t", "!", ".", "/", "\\"}

RECURSIVE StringsUpTo(_)
StringsUpTo(n) ==
    IF n = 0 THEN {<<>>}
    ELSE LET shorter == StringsUpTo(n - 1)
         IN  shorter \cup
             {Append(w, c) : w \in {x \in shorter : Len(x) = n - 1},
                             c \in SanAlphabet}

\* longer names of clients
LongNames ==
    { <<"A", "n", "o", "n", "y", "m", "o", "u", "s">>,
      <<" ", "J", "a", "n", "e", " ", " ", "D", "o", "e", "!", " ">>,
      <<"a", " ", "-", " ", "B", ".", "/", ".", ".", "\\", "c", "_", "9">> }

\* absent, empty, and strings
RawNames == {Undef} \cup {Str(w) : w \in StringsUpTo(MaxLen) \cup LongNames}

\* the destination callback computes the folder of the raw name
Sanitize ==
    /\ sanOut = <<>>
    /\ sanOut' = ClientDirName(sanIn)
    /\ UNCHANGED <<sep, creds, faults, up, now, dirExists, store, store0, pc,
                   nparts, body, files, steps, resp, sub, getResp, log, sanIn>>

InitSan == InitWith({"/"}, {FALSE}, {<<FALSE, NoFile>>}, RawNames)
NextSan == Sanitize
SpecSan == InitSan /\ [][NextSan]_vars

----------------------------------------------------------------------------
(* Vocabulary of the properties *)

Has(seq, x) == \E i \in 1..Len(seq) : seq[i] = x

Count(seq, x) == Cardinality({i \in 1..Len(seq) : seq[i] = x})

\* the route handler of request r has run
Handled(r) == Has(steps[r], "handle")

\* appendSubmission has returned for request r
Appended(r) == Has(steps[r], "append")

\* the file system failed no call of r's handler
NoFault(r) == ~Has(steps[r], "fault")

WellFormed(st) ==
    /\ st.exists /\ st.readable
    /\ st.raw.k = "json"
    /\ st.raw.val.t = "object"
    /\ st.raw.val.subs.t = "list"

\* the `submissions` sequence of a well-formed store file
ListOf(st) == st.raw.val.subs.v

\* the submissions as documents, in the order given
AsJson(l) == [i \in 1..Len(l) |-> SubToJson(l[i])]

\* the pipeline steps of r the clients and the operator can observe
Core(r) ==
    SelectSeq(steps[r], LAMBDA x :
        x \in {"append", "send", "sent", "sendfail", "respond"})

\* the last path segment of a directory
RECURSIVE LastSegment(_)
LastSegment(p) ==
    IF p = <<>> \/ p[Len(p)] = sep THEN <<>>
    ELSE LastSegment(SubSeq(p, 1, Len(p) - 1)) \o <<p[Len(p)]>>

\* the public path of a stored file, from the folder and the name it got
ExpectedPublic(f) ==
    <<"/", "u", "p", "l", "o", "a", "d", "s", "/">>
        \o LastSegment(f.destination) \o <<"/">> \o f.filename

\* the reference sanitizer, in one pass over the raw name: lowercase, drop
\* what is not a-z 0-9 - _ or whitespace, and put one hyphen between the
\* words that whitespace separates
RECURSIVE RefScan(_, _, _)
RefScan(s, out, gap) ==
    IF s = <<>> THEN out
    ELSE LET h == Head(s)
             c == IF \E i \in 1..26 : UpperSeq[i] = h
                  THEN LowerSeq[CHOOSE i \in 1..26 : UpperSeq[i] = h]
                  ELSE h
         IN  IF c \in WS THEN RefScan(Tail(s), out, out # <<>>)
             ELSE IF c \in Lower \cup Digit \cup {"-", "_"}
             THEN RefScan(Tail(s), (IF gap THEN Append(out, "-") ELSE out) \o <<c>>,
                          FALSE)
             ELSE RefScan(Tail(s), out, gap)

RefProcessed(raw) == IF raw.t = "string" THEN RefScan(raw.v, <<>>, FALSE) ELSE <<>>

SafeChars == Lower \cup Digit \cup {"-", "_"}

----------------------------------------------------------------------------
(* Properties *)

\* C1: every failure of POST /api/requests, the upload step included, ends in
\* the response 500 {"ok": false, "error": "Failed to process request"}: no
\* request is answered in another form and none is left unanswered by a
\* server that died handling it
C1_EveryFailureIsJson500 ==
    /\ up
    /\ \A r \in Reqs : resp[r] \in {NoResp, Ok200, Json500}

\* C2: with the mail credentials unset, a POST whose upload and store steps
\* succeed is answered 500 "Failed to process request" in the step that
\* appends its submission, no send is attempted, the store ends with the new
\* submission when the response is sent, and the submission stays in the store
C2_NoCredentialsStillStored ==
    [][ /\ \A r \in Reqs :
            (~creds /\ ~Appended(r) /\ Appended(r)') =>
                /\ pc'[r] = "done"
                /\ resp'[r] = Json500
                /\ ~Has(steps'[r], "send")
                /\ WellFormed(store')
                /\ ListOf(store') # <<>>
                /\ ListOf(store')[Len(ListOf(store'))] = SubToJson(sub'[r])
        /\ \A r \in Reqs :
            (~creds /\ Appended(r)) =>
                /\ Appended(r)'
                /\ WellFormed(store')
                /\ Has(ListOf(store'), SubToJson(sub'[r]))
                /\ resp'[r] = Json500 ]_vars

C2_Witness ==
    \E r \in Reqs :
        /\ ~creds /\ Appended(r) /\ resp[r] = Json500
        /\ Len(files[r]) > 0
        /\ Has(ListOf(store), SubToJson(sub[r]))

\* C3: when the file system fails no call, appendSubmission returns whatever
\* the store file holds, and afterwards the file holds an object whose
\* `submissions` sequence ends with the new submission
C3_AppendNeverFailsOnContent ==
    \A r \in {1} :
        (Handled(r) /\ NoFault(r)) =>
            /\ Appended(r)
            /\ store.exists
            /\ store.raw.k = "json"
            /\ store.raw.val.t = "object"
            /\ store.raw.val.subs.t = "list"
            /\ ListOf(store) # <<>>
            /\ ListOf(store)[Len(ListOf(store))] = SubToJson(sub[r])

\* C4: GET /api/requests always answers 200 with a body {"submissions": [...]}
C4_ListingAlways200 ==
    getResp.kind \in {"json", "html"} =>
        /\ getResp.status = 200
        /\ getResp.kind = "json"
        /\ getResp.data.t = "object"
        /\ getResp.data.subs.t = "list"

\* C5: from an initialized, well-formed store and on a file system that works,
\* the store's `submissions` sequence is what it was at the start followed by
\* the submissions appended so far, in the order of their appends
C5_StoreIsInitialPlusAppended ==
    IF store.exists
    THEN /\ WellFormed(store)
         /\ ListOf(store) =
                (IF store0.exists THEN ListOf(store0) ELSE <<>>) \o AsJson(log)
    ELSE /\ ~store0.exists
         /\ log = <<>>

C5_Witness ==
    /\ store0.exists /\ ListOf(store0) # <<>>
    /\ Len(log) = 2
    /\ getResp.kind = "json"
    /\ \E r \in Reqs : Has(steps[r], "sendfail")

\* the store misses the submission of a request whose append returned
LostAppend ==
    /\ Appended(1) /\ Appended(2)
    /\ ~ \E i, j \in 1..Len(ListOf(store)) :
            /\ i # j
            /\ ListOf(store)[i] = SubToJson(sub[1])
            /\ ListOf(store)[j] = SubToJson(sub[2])

HandleSome(r) == \E rnd \in Rands, f \in IoFaults : Handle(r, rnd, f)

\* C6 as stated: two POSTs in flight together can race, that is, from a state
\* where both are about to be handled there is a way to handle both after
\* which the store holds only one of the two submissions
C6_RaceCanLoseAppend ==
    (pc[1] = "upload" /\ pc[2] = "upload") =>
        \/ ENABLED (HandleSome(1) /\ (ENABLED (HandleSome(2) /\ LostAppend'))')
        \/ ENABLED (HandleSome(2) /\ (ENABLED (HandleSome(1) /\ LostAppend'))')

\* C6 as amended: the handler appends in one synchronous step, so whenever
\* the appends of two requests have both returned, however the requests
\* interleave, the store holds both submissions
C6_NoLostAppend == ~LostAppend

C6_Witness ==
    /\ pc[1] = "sending" /\ pc[2] = "sending"
    /\ Appended(1) /\ Appended(2)
    /\ Len(ListOf(store)) >= 2

\* C7: every file of a request is stored in <uploads-root>/sanitize(name) for
\* the value of the request's `name` field, wherever that field stands in the
\* body, so all files of one request share a folder
C7_FilesInFolderOfName ==
    \A r \in Reqs :
        (Handled(r) /\ body[r].t # "array") =>
            \A i \in 1..Len(files[r]) :
                /\ files[r][i].destination = ClientDir(body[r])
                /\ files[r][i].destination = files[r][1].destination

\* C8: the appended submission of a POST has one image per uploaded file, the
\* i-th being the /uploads/-prefixed forward-slash path of the i-th file, and
\* no stored submission has more than 6 images
C8_ImagesFollowUploads ==
    /\ \A r \in Reqs :
        Appended(r) =>
            /\ Len(sub[r].images) = Count(steps[r], "file")
            /\ Len(sub[r].images) = Len(files[r])
            /\ Len(sub[r].images) <= 6
            /\ \A i \in 1..Len(files[r]) :
                /\ sub[r].images[i] = ExpectedPublic(files[r][i])
                /\ ~Has(sub[r].images[i], "\\")
            /\ Has(ListOf(store), SubToJson(sub[r]))
    /\ WellFormed(store) =>
        \A i \in 1..Len(ListOf(store)) : Len(ListOf(store)[i].images) <= 6

C8_Witness ==
    \E r \in Reqs :
        /\ Appended(r) /\ sep = "\\"
        /\ Len(files[r]) = 6
        /\ files[r][1].path # files[r][6].path

\* C9 as stated: the sanitizer returns the reference result, a non-empty
\* string over a-z 0-9 - _, and "anonymous" exactly when the input is absent
\* or empty after processing
C9_AnonymousExactlyWhenEmpty ==
    sanOut # <<>> =>
        /\ \A i \in 1..Len(sanOut) : sanOut[i] \in SafeChars
        /\ RefProcessed(sanIn) # <<>> => sanOut = RefProcessed(sanIn)
        /\ sanOut = ANONYMOUS <=> RefProcessed(sanIn) = <<>>

\* C9 as amended: the sanitizer returns the reference result, a non-empty
\* string over a-z 0-9 - _; it is "anonymous" whenever the input is absent or
\* empty after processing, and otherwise it is the processed input
C9_SanitizerTotalAndSafe ==
    sanOut # <<>> =>
        /\ \A i \in 1..Len(sanOut) : sanOut[i] \in SafeChars
        /\ RefProcessed(sanIn) = <<>> => sanOut = ANONYMOUS
        /\ RefProcessed(sanIn) # <<>> => sanOut = RefProcessed(sanIn)

C9_Witness ==
    /\ sanIn.t = "string" /\ Len(sanIn.v) = MaxLen
    /\ \E i \in 1..Len(sanIn.v) : sanIn.v[i] \in WS
    /\ \E i \in 1..Len(sanIn.v) : sanIn.v[i] \in Upper
    /\ Has(sanOut, "-")

====
